---- MODULE Spec2Model ----
(***************************************************************************)
(* The dependency-injection container of src/src/lib/dependency.ts:        *)
(* class Services (descriptor table, scoped cache, parent) and class       *)
(* AppBuilder (configuration steps run against one root registry); class   *)
(* EventEmitter of src/unnamed/part_002; class Socket of                   *)
(* src/unnamed/part_005; defer, reply and send of class Message of         *)
(* src/src/core/message.ts.  Each class has its own specification.         *)
(*                                                                         *)
(* Registries and descriptors are heap objects.  A registry is a number    *)
(* 1..Len(parent) in creation order, a descriptor a number 1..Len(desc).   *)
(* A Map is a function whose DOMAIN is the set of keys it has.  createScope*)
(* copies the Map, not the descriptors: parent and child then refer to     *)
(* the same descriptor object.                                             *)
(***************************************************************************)
EXTENDS Integers, Sequences, FiniteSets

VARIABLES
    parent,           \* parent[r]: Services.parent of registry r (NoParent: none)
    services,         \* services[r]: Services.services, name -> descriptor reference
    scopedInstances,  \* scopedInstances[r]: Services.scopedInstances, name -> value
    desc,             \* desc[d]: the ServiceDescriptor object d
    returned,         \* returned[d]: the factory of descriptor d has been called and has returned
    nextObj,          \* number of objects constructed so far (object identities 1..nextObj)
    steps,            \* steps[i]: the i-th configuration step supplied to the AppBuilder
    log,              \* the steps' begins and ends and the build() calls, in the order they happened
    built,            \* the registry references that build() has returned
    listeners,        \* EventEmitter.listeners: event name -> array of listeners
    emitting,         \* the last call of emit (active: it is running), with the position of its forEach
    delivered,        \* the listener invocations of the last emit: <<listener, parameters>>
    emitResult,       \* how the last emit ended: "none", "running", "returned", "threw"
    socket,           \* Socket.socket: the underlying socket in use (0: undefined)
    handlers,         \* handlers[s]: the events of underlying socket s that have a handler of the Socket
    env,              \* Bun.env: USE_PAIRING and PHONE set or not (read: the process has started)
    upserts,          \* upserts[b]: the b-th "messages.upsert" batch and how far messagesUpsert is with it
    trace,            \* the readMessages calls and the emits of messagesUpsert, in the order they happened
    lastUpdate,       \* the last "connection.update" handled and what connectionUpdate did with it
    timers,           \* timers[t]: the timer t that a defer() of the Message created
    pool,             \* Message.pool
    cancelDefer,      \* Message.cancelDefer
    deferring,        \* number of defer() calls waiting in the await of line 101
    defers,           \* number of defer() calls made
    replied,          \* reply() or send() has been called on the Message
    staleComposing    \* an interval created before a reply()/send() has sent "composing" after it

servicesVars == <<parent, services, scopedInstances, desc, returned, nextObj>>

builderVars == <<steps, log, built>>

emitterVars == <<listeners, emitting, delivered, emitResult>>

socketVars == <<socket, handlers, env, upserts, trace, lastUpdate>>

messageVars == <<timers, pool, cancelDefer, deferring, defers, replied, staleComposing>>

vars == <<parent, services, scopedInstances, desc, returned, nextObj, steps, log, built,
          listeners, emitting, delivered, emitResult,
          socket, handlers, env, upserts, trace, lastUpdate,
          timers, pool, cancelDefer, deferring, defers, replied, staleComposing>>

\* ---------------------------------------------------------------- bounds
MaxReg  == 3    \* registries created (the root and its scopes)
MaxDesc == 2    \* registrations made (descriptor objects allocated)
MaxObj  == 2    \* objects constructed by callers and factories
MaxSteps  == 2  \* configuration steps supplied to the AppBuilder
MaxBuilds == 2  \* calls of AppBuilder.build()
MaxListeners == 3  \* length of one event name's array of listeners
MaxSockets == 2  \* underlying sockets created by Socket.start()
MaxUpserts == 1  \* "messages.upsert" batches received
MaxBatch   == 2  \* messages in one batch
MaxDefers  == 3  \* calls of Message.defer()

Names == {"a", "b"}

\* ---------------------------------------------------------------- values
\* A ServiceValue is any JavaScript value.  Objects are positive numbers
\* (reference identity); the values below are the falsy ones the code meets.
Undefined == 0
Null      == 0 - 1

Truthy(v) == v > 0

NoParent == 0

\* pool and cancelDefer before a defer() has assigned them (undefined)
NoTimer == 0

\* Factories a caller can supply, by what a call of them does.
NoFactory == "none"
Factories == {"fresh", "null", "flaky"}

\* The outcomes of one factory call: [threw, value].  "fresh" constructs a
\* new object, "flaky" throws or constructs a new object.
FactoryOutcomes(f) ==
    CASE f = "fresh"     -> {[threw |-> FALSE, value |-> nextObj + 1]}
      [] f = "null"      -> {[threw |-> FALSE, value |-> Null]}
      [] f = "flaky"     -> {[threw |-> TRUE, value |-> Undefined],
                             [threw |-> FALSE, value |-> nextObj + 1]}

Registries  == 1..Len(parent)
Descriptors == 1..Len(desc)

\* m.set(k, v) on a Map m
MapSet(m, k, v) == [x \in (DOMAIN m) \cup {k} |-> IF x = k THEN v ELSE m[x]]

EmptyMap == [x \in {} |-> 0]

Root == 1

\* no emit has been called
NoEmit ==
    [active |-> FALSE, name |-> "", parameters |-> "", array |-> <<>>,
     length |-> 0, k |-> 0, sameArray |-> FALSE, atStart |-> <<>>]

Init ==
    /\ parent = <<NoParent>>
    /\ services = <<EmptyMap>>
    /\ scopedInstances = <<EmptyMap>>
    /\ desc = <<>>
    /\ returned = <<>>
    /\ nextObj = 0
    /\ steps = <<>>
    /\ log = <<>>
    /\ built = {}
    /\ listeners = EmptyMap
    /\ emitting = NoEmit
    /\ delivered = <<>>
    /\ emitResult = "none"
    /\ socket = 0
    /\ handlers = <<>>
    /\ env = [read |-> FALSE, usePairing |-> FALSE, phone |-> FALSE]
    /\ upserts = <<>>
    /\ trace = <<>>
    /\ lastUpdate = [result |-> "none",
                     update |-> [connection |-> "none", statusCode |-> "none", qr |-> FALSE]]
    /\ timers = <<>>
    /\ pool = NoTimer
    /\ cancelDefer = NoTimer
    /\ deferring = 0
    /\ defers = 0
    /\ replied = FALSE
    /\ staleComposing = FALSE

\* ------------------------------------------------------- registration
\* Register when createScope has handed its scope the parent's own Map
\* (scope.services = this.services): the write shows in the parent too.
RegisterAliased(r, n, d) ==
    /\ Len(desc) < MaxDesc
    /\ desc' = Append(desc, d)
    /\ returned' = Append(returned, FALSE)
    /\ services' = [x \in DOMAIN services |->
                        IF x = r \/ x = parent[r]
                        THEN MapSet(services[x], n, Len(desc) + 1)
                        ELSE services[x]]
    /\ UNCHANGED <<parent, scopedInstances>>

\* Register when scopes are live views: the write shows in the scopes
\* already created from r.
RegisterLive(r, n, d) ==
    /\ Len(desc) < MaxDesc
    /\ desc' = Append(desc, d)
    /\ returned' = Append(returned, FALSE)
    /\ services' = [x \in DOMAIN services |->
                        IF x = r \/ parent[x] = r
                        THEN MapSet(services[x], n, Len(desc) + 1)
                        ELSE services[x]]
    /\ UNCHANGED <<parent, scopedInstances>>

\* this.services.set(name, descriptor): a new descriptor object is allocated
\* and the name of registry r's own table refers to it.
Register(r, n, d) ==
    /\ Len(desc) < MaxDesc
    /\ desc' = Append(desc, d)
    /\ returned' = Append(returned, FALSE)
    /\ services' = [services EXCEPT ![r] = MapSet(services[r], n, Len(desc) + 1)]
    /\ UNCHANGED <<parent, scopedInstances>>

SingletonDescriptor(service) ==
    [implementation |-> service, lifetime |-> "Singleton", factory |-> NoFactory]

SingletonFactoryDescriptor(factory) ==
    [implementation |-> Null, lifetime |-> "Singleton", factory |-> factory]

TransientDescriptor(factory) ==
    [implementation |-> Null, lifetime |-> "Transient", factory |-> factory]

ScopedDescriptor(factory) ==
    [implementation |-> Null, lifetime |-> "Scoped", factory |-> factory]

\* The caller registers an object it has just constructed, or a falsy value.
AddSingleton(r, n) ==
    \/ /\ nextObj < MaxObj
       /\ Register(r, n, SingletonDescriptor(nextObj + 1))
       /\ nextObj' = nextObj + 1
    \/ /\ Register(r, n, SingletonDescriptor(Undefined))
       /\ UNCHANGED nextObj

AddSingletonFactory(r, n, f) ==
    /\ Register(r, n, SingletonFactoryDescriptor(f))
    /\ UNCHANGED nextObj

AddTransient(r, n, f) ==
    /\ Register(r, n, TransientDescriptor(f))
    /\ UNCHANGED nextObj

AddScoped(r, n, f) ==
    /\ Register(r, n, ScopedDescriptor(f))
    /\ UNCHANGED nextObj

\* ------------------------------------------------------------ scopes
\* ScopeTable without line 95: the scope starts with an empty table.
ScopeTableEmpty(r) == EmptyMap

\* new Map(this.services): the entries are copied, the descriptors are not.
ScopeTable(r) == services[r]

\* ScopeCache copying the creator's cache along with its table.
ScopeCacheCopied(r) == scopedInstances[r]

\* new Services(this): scopedInstances is a new, empty Map.
ScopeCache(r) == EmptyMap

CreateScope(r) ==
    /\ Len(parent) < MaxReg
    /\ parent' = Append(parent, r)
    /\ services' = Append(services, ScopeTable(r))
    /\ scopedInstances' = Append(scopedInstances, ScopeCache(r))
    /\ UNCHANGED <<desc, returned, nextObj>>

\* -------------------------------------------------------- resolution
RECURSIVE Owner(_, _)

\* Owner without line 78-80: a miss in the own table is a miss.
OwnerSnapshotOnly(r, n) == IF n \in DOMAIN services[r] THEN r ELSE NoParent

\* Owner asking the parent before the own table.
OwnerParentFirst(r, n) ==
    IF parent[r] # NoParent /\ Owner(parent[r], n) # NoParent
    THEN Owner(parent[r], n)
    ELSE IF n \in DOMAIN services[r] THEN r ELSE NoParent

\* The registry getRequiredService(n) called on r ends in: r itself when its
\* own table has n, else what the call on its parent ends in, else none.
Owner(r, n) ==
    IF n \in DOMAIN services[r] THEN r
    ELSE IF parent[r] # NoParent THEN Owner(parent[r], n)
    ELSE NoParent

\* line 62: descriptor.factory && !descriptor.implementation
NeedsFactory(d) == d.factory # NoFactory /\ ~Truthy(d.implementation)

\* line 71: !this.scopedInstances.has(name)
NeedsScopedInstance(h, n) == n \notin DOMAIN scopedInstances[h]

\* One outcome of the lifetime rule: what is returned or thrown, whether a
\* factory was called, and the descriptor heap and scoped caches it leaves.
Outcome(status, value, invoked, newDesc, newScoped, newReturned) ==
    [status |-> status, errorName |-> "", value |-> value, invoked |-> invoked,
     desc |-> newDesc, scopedInstances |-> newScoped, returned |-> newReturned,
     nextObj |-> IF value > nextObj THEN value ELSE nextObj]

Returned(d) == [returned EXCEPT ![d] = TRUE]

\* Thrown when the factory is detached from the descriptor before it is
\* called: a failed call leaves a descriptor that cannot be materialized.
ThrownFactoryCleared(d) ==
    Outcome("threw", Undefined, TRUE, [desc EXCEPT ![d].factory = NoFactory],
            scopedInstances, returned)

\* The factory of descriptor d is called and throws: the error leaves
\* getRequiredService before any assignment.
Thrown(d) == Outcome("threw", Undefined, TRUE, desc, scopedInstances, returned)

\* SingletonCase returning the factory's result without the assignment to
\* descriptor.implementation of line 63.
SingletonCaseNotStored(d) ==
    IF NeedsFactory(desc[d])
    THEN {IF o.threw THEN Thrown(d)
          ELSE Outcome("ok", o.value, TRUE, desc, scopedInstances, Returned(d))
          : o \in FactoryOutcomes(desc[d].factory)}
    ELSE {Outcome("ok", desc[d].implementation, FALSE, desc, scopedInstances, returned)}

\* case ServiceLifetime.Singleton (lines 61-65)
SingletonCase(d) ==
    IF NeedsFactory(desc[d])
    THEN {IF o.threw THEN Thrown(d)
          ELSE Outcome("ok", o.value, TRUE,
                       [desc EXCEPT ![d].implementation = o.value],
                       scopedInstances, Returned(d))
          : o \in FactoryOutcomes(desc[d].factory)}
    ELSE {Outcome("ok", desc[d].implementation, FALSE, desc, scopedInstances, returned)}

\* TransientCase keeping the first instance, as the Singleton case does.
TransientCached(d) == SingletonCase(d)

\* case ServiceLifetime.Transient (lines 67-68)
TransientCase(d) ==
    IF desc[d].factory # NoFactory
    THEN {IF o.threw THEN Thrown(d)
          ELSE Outcome("ok", o.value, TRUE, desc, scopedInstances, Returned(d))
          : o \in FactoryOutcomes(desc[d].factory)}
    ELSE {Outcome("ok", desc[d].implementation, FALSE, desc, scopedInstances, returned)}

\* ScopedCase that also writes the instance to descriptor.implementation, as
\* the Singleton case does.
ScopedCaseInDescriptor(h, n, d) ==
    IF NeedsScopedInstance(h, n)
    THEN IF desc[d].factory # NoFactory
         THEN {IF o.threw THEN Thrown(d)
               ELSE Outcome("ok", o.value, TRUE,
                            [desc EXCEPT ![d].implementation = o.value],
                            [scopedInstances EXCEPT ![h] = MapSet(@, n, o.value)],
                            Returned(d))
               : o \in FactoryOutcomes(desc[d].factory)}
         ELSE {Outcome("ok", desc[d].implementation, FALSE, desc,
                       [scopedInstances EXCEPT ![h] = MapSet(@, n, desc[d].implementation)],
                       returned)}
    ELSE {Outcome("ok", scopedInstances[h][n], FALSE, desc, scopedInstances, returned)}

\* ScopedCase with one cache for the whole tree, kept by the root.
ScopedCaseRootCache(h, n, d) ==
    IF NeedsScopedInstance(Root, n)
    THEN IF desc[d].factory # NoFactory
         THEN {IF o.threw THEN Thrown(d)
               ELSE Outcome("ok", o.value, TRUE, desc,
                            [scopedInstances EXCEPT ![Root] = MapSet(@, n, o.value)],
                            Returned(d))
               : o \in FactoryOutcomes(desc[d].factory)}
         ELSE {Outcome("ok", desc[d].implementation, FALSE, desc,
                       [scopedInstances EXCEPT ![Root] = MapSet(@, n, desc[d].implementation)],
                       returned)}
    ELSE {Outcome("ok", scopedInstances[Root][n], FALSE, desc, scopedInstances, returned)}

\* case ServiceLifetime.Scoped (lines 70-74), in registry h
ScopedCase(h, n, d) ==
    IF NeedsScopedInstance(h, n)
    THEN IF desc[d].factory # NoFactory
         THEN {IF o.threw THEN Thrown(d)
               ELSE Outcome("ok", o.value, TRUE, desc,
                            [scopedInstances EXCEPT ![h] = MapSet(@, n, o.value)],
                            Returned(d))
               : o \in FactoryOutcomes(desc[d].factory)}
         ELSE {Outcome("ok", desc[d].implementation, FALSE, desc,
                       [scopedInstances EXCEPT ![h] = MapSet(@, n, desc[d].implementation)],
                       returned)}
    ELSE {Outcome("ok", scopedInstances[h][n], FALSE, desc, scopedInstances, returned)}

\* The switch of lines 60-75 in the registry h whose table has n.
LifetimeRule(h, n) ==
    LET d == services[h][n] IN
    CASE desc[d].lifetime = "Singleton" -> SingletonCase(d)
      [] desc[d].lifetime = "Transient" -> TransientCase(d)
      [] desc[d].lifetime = "Scoped"    -> ScopedCase(h, n, d)

\* NotFound with a fixed message, as take() of src/src/core/dependency.ts has.
NotFoundUnnamed(n) ==
    Outcome("notfound", Undefined, FALSE, desc, scopedInstances, returned)

\* line 82: throw new Error(`Service '${name}' not found!`)
NotFound(n) ==
    [Outcome("notfound", Undefined, FALSE, desc, scopedInstances, returned)
        EXCEPT !.errorName = n]

\* GetRequiredServiceOutcomes applying the lifetime rule in the registry
\* that was called, to the descriptor found in the chain.
GetRequiredServiceAtCaller(r, n) ==
    IF Owner(r, n) = NoParent
    THEN {NotFound(n)}
    ELSE LET d == services[Owner(r, n)][n] IN
         CASE desc[d].lifetime = "Singleton" -> SingletonCase(d)
           [] desc[d].lifetime = "Transient" -> TransientCase(d)
           [] desc[d].lifetime = "Scoped"    -> ScopedCase(r, n, d)

\* Every outcome of getRequiredService(n) called on registry r.
GetRequiredServiceOutcomes(r, n) ==
    IF Owner(r, n) = NoParent
    THEN {NotFound(n)}
    ELSE LifetimeRule(Owner(r, n), n)

\* GetServiceOutcomes whose catch handles the not-found error only.
GetServiceCatchesNotFound(r, n) ==
    {IF o.status = "notfound"
     THEN [o EXCEPT !.status = "ok", !.value = Undefined, !.errorName = ""]
     ELSE o
     : o \in GetRequiredServiceOutcomes(r, n)}

\* Every outcome of getService(n) called on registry r:
\* try { return this.getRequiredService(name) } catch { return undefined }
GetServiceOutcomes(r, n) ==
    {IF o.status = "ok" THEN o
     ELSE [o EXCEPT !.status = "ok", !.value = Undefined, !.errorName = ""]
     : o \in GetRequiredServiceOutcomes(r, n)}

\* The state an outcome leaves; the objects constructed stay within MaxObj.
Apply(o) ==
    /\ o.nextObj <= MaxObj
    /\ desc' = o.desc
    /\ scopedInstances' = o.scopedInstances
    /\ returned' = o.returned
    /\ nextObj' = o.nextObj
    /\ UNCHANGED <<parent, services>>

GetRequiredService(r, n) == \E o \in GetRequiredServiceOutcomes(r, n) : Apply(o)

GetService(r, n) == \E o \in GetServiceOutcomes(r, n) : Apply(o)

\* AppBuilder.build(): returns the builder's registry and changes nothing
Build == UNCHANGED vars

\* The operations of class Services, called on any registry by a caller
\* that holds it; no configuration step is involved.
Next ==
    \/ \E r \in Registries, n \in Names :
            AddSingleton(r, n) /\ UNCHANGED <<builderVars, emitterVars, socketVars, messageVars>>
    \/ \E r \in Registries, n \in Names, f \in Factories :
            AddSingletonFactory(r, n, f) /\ UNCHANGED <<builderVars, emitterVars, socketVars, messageVars>>
    \/ \E r \in Registries, n \in Names, f \in Factories :
            AddTransient(r, n, f) /\ UNCHANGED <<builderVars, emitterVars, socketVars, messageVars>>
    \/ \E r \in Registries, n \in Names, f \in Factories :
            AddScoped(r, n, f) /\ UNCHANGED <<builderVars, emitterVars, socketVars, messageVars>>
    \/ \E r \in Registries : CreateScope(r) /\ UNCHANGED <<builderVars, emitterVars, socketVars, messageVars>>
    \/ \E r \in Registries, n \in Names :
            GetRequiredService(r, n) /\ UNCHANGED <<builderVars, emitterVars, socketVars, messageVars>>
    \/ \E r \in Registries, n \in Names :
            GetService(r, n) /\ UNCHANGED <<builderVars, emitterVars, socketVars, messageVars>>
    \/ Build

Spec == Init /\ [][Next]_vars

\* ------------------------------------------------------------ AppBuilder
\* A configuration step as the tests and src/src/index.ts write them: a
\* synchronous step registers a service; an asynchronous step awaits its
\* setup work first and registers a service when that work is over.  A step
\* is "suspended" between its call and the end of its awaited work.
ConfigurationStep(kind, n, awaited, phase) ==
    [kind |-> kind, name |-> n, awaited |-> awaited, phase |-> phase,
     registry |-> Root]

\* ConfigureServiceSettled without the await of line 104: the promise that
\* configureService returns is settled as soon as the step has been called.
ConfigureServiceSettledAtCall(i) == TRUE

\* line 104, await configure(this.services): the promise that
\* configureService returned for step i settles when the step's does.
ConfigureServiceSettled(i) == steps[i].phase = "done"

\* The caller is not suspended in `await builder.configureService(...)`:
\* every promise it chose to await is settled.
CallerRuns ==
    \A i \in 1..Len(steps) : steps[i].awaited => ConfigureServiceSettled(i)

\* configure(step): step(this.services) runs to its end inside the call.
Configure(n) ==
    /\ CallerRuns
    /\ Len(steps) < MaxSteps
    /\ AddSingleton(Root, n)
    /\ steps' = Append(steps, ConfigurationStep("sync", n, FALSE, "done"))
    /\ log' = log \o << <<"begin", Len(steps) + 1>>, <<"end", Len(steps) + 1>> >>
    /\ UNCHANGED built

\* configureService(step): the step is called with this.services and runs
\* to its first await; the caller gets a promise, which it awaits or not.
ConfigureService(n, awaited) ==
    /\ CallerRuns
    /\ Len(steps) < MaxSteps
    /\ steps' = Append(steps, ConfigurationStep("async", n, awaited, "suspended"))
    /\ log' = Append(log, <<"begin", Len(steps) + 1>>)
    /\ UNCHANGED <<servicesVars, built>>

\* The awaited work of the suspended step i is over: the step resumes,
\* registers its service in the registry it was given and returns.
StepResumes(i) ==
    /\ steps[i].phase = "suspended"
    /\ AddSingleton(steps[i].registry, steps[i].name)
    /\ steps' = [steps EXCEPT ![i].phase = "done"]
    /\ log' = Append(log, <<"end", i>>)
    /\ UNCHANGED built

Builds == {p \in 1..Len(log) : log[p][1] = "build"}

\* build() returning a scope of the builder's registry.
BuilderBuildScope ==
    /\ CallerRuns
    /\ Cardinality(Builds) < MaxBuilds
    /\ CreateScope(Root)
    /\ built' = built \cup {Len(parent) + 1}
    /\ log' = Append(log, <<"build", 0>>)
    /\ UNCHANGED steps

\* build(): return this.services
BuilderBuild ==
    /\ CallerRuns
    /\ Cardinality(Builds) < MaxBuilds
    /\ built' = built \cup {Root}
    /\ log' = Append(log, <<"build", 0>>)
    /\ UNCHANGED <<servicesVars, steps>>

\* One caller drives one AppBuilder; the suspended steps resume when the
\* scheduler runs them.
BuilderNext ==
    \/ \E n \in Names : Configure(n) /\ UNCHANGED <<emitterVars, socketVars, messageVars>>
    \/ \E n \in Names, awaited \in BOOLEAN :
            ConfigureService(n, awaited) /\ UNCHANGED <<emitterVars, socketVars, messageVars>>
    \/ \E i \in 1..Len(steps) : StepResumes(i) /\ UNCHANGED <<emitterVars, socketVars, messageVars>>
    \/ BuilderBuild /\ UNCHANGED <<emitterVars, socketVars, messageVars>>

SpecBuilder == Init /\ [][BuilderNext]_vars

\* ---------------------------------------------------------- EventEmitter
\* class EventEmitter of src/unnamed/part_002.  listeners is an object whose
\* keys are the event names that have an array.  An array is an object too:
\* on pushes to the array in place, off replaces it by the new array that
\* filter returns, and forEach in emit walks the array object it was called
\* on, up to the length that array had when forEach began.
EventNames == {"message", "other"}

Listeners == {"f", "g"}

Parameters == {"p", "q"}

\* what the code of a listener does when it is invoked: nothing more, a call
\* of on or off of the emitter, or a throw
ListenerBodies ==
    {[op |-> "return", name |-> "", listener |-> ""],
     [op |-> "throw", name |-> "", listener |-> ""]}
    \cup {[op |-> o, name |-> n, listener |-> l] :
            o \in {"on", "off"}, n \in EventNames, l \in Listeners}

\* lines 5-7: the array of the name, created on first use, gets l pushed
OnListeners(name, l) ==
    IF name \in DOMAIN listeners
    THEN MapSet(listeners, name, Append(listeners[name], l))
    ELSE MapSet(listeners, name, <<l>>)

\* off removing the first subscription of the listener only, as
\* splice(indexOf(listener), 1) would.
OffFirstOnly(name, l) ==
    IF name \in DOMAIN listeners /\ \E i \in 1..Len(listeners[name]) : listeners[name][i] = l
    THEN LET s == listeners[name]
             i == CHOOSE x \in 1..Len(s) :
                    s[x] = l /\ \A y \in 1..(x - 1) : s[y] # l
         IN  MapSet(listeners, name, SubSeq(s, 1, i - 1) \o SubSeq(s, i + 1, Len(s)))
    ELSE listeners

\* lines 11-12: this.listeners[name].filter(l => l !== listener)
OffListeners(name, l) ==
    IF name \in DOMAIN listeners
    THEN MapSet(listeners, name, SelectSeq(listeners[name], LAMBDA x : x # l))
    ELSE listeners

\* The emit that is running after on(name, l): the array it walks has l
\* pushed when it still is the array of name.
OnEmitting(name, l) ==
    IF emitting.active /\ emitting.name = name /\ emitting.sameArray
    THEN [emitting EXCEPT !.array = Append(@, l)]
    ELSE emitting

\* The emit that is running after off(name, l): the name has a new array,
\* the emit keeps walking the one it began with.
OffEmitting(name, l) ==
    IF emitting.active /\ emitting.name = name
    THEN [emitting EXCEPT !.sameArray = FALSE]
    ELSE emitting

\* on(name, listener), called while no emit is running
On(name, l) ==
    /\ ~emitting.active
    /\ name \in DOMAIN listeners => Len(listeners[name]) < MaxListeners
    /\ listeners' = OnListeners(name, l)
    /\ UNCHANGED <<emitting, delivered, emitResult>>

\* off(name, listener), called while no emit is running
Off(name, l) ==
    /\ ~emitting.active
    /\ listeners' = OffListeners(name, l)
    /\ UNCHANGED <<emitting, delivered, emitResult>>

\* emit(name, ...parameters) is called: nothing happens when the name has no
\* array (line 16), otherwise forEach begins (line 17)
Emit(name, p) ==
    /\ ~emitting.active
    /\ delivered' = <<>>
    /\ IF name \in DOMAIN listeners
       THEN /\ emitting' = [active |-> TRUE, name |-> name, parameters |-> p,
                            array |-> listeners[name],
                            length |-> Len(listeners[name]), k |-> 1,
                            sameArray |-> TRUE, atStart |-> listeners[name]]
            /\ emitResult' = "running"
       ELSE /\ emitting' = [NoEmit EXCEPT !.name = name, !.parameters = p]
            /\ emitResult' = "returned"
    /\ UNCHANGED listeners

\* forEach visiting the indices up to the length the array has now.
ForEachLengthLive == Len(emitting.array)

\* forEach visiting the indices below the length the array had when
\* forEach began
ForEachLength == emitting.length

\* forEach walking the array from its end.
ForEachElementReversed == emitting.array[emitting.length + 1 - emitting.k]

\* the element forEach passes to its callback at index k
ForEachElement == emitting.array[emitting.k]

\* line 17, l(...parameters): the next listener is invoked and runs its body
InvokeListener(body) ==
    /\ emitting.active
    /\ emitting.k <= ForEachLength
    /\ delivered' = Append(delivered, <<ForEachElement, emitting.parameters>>)
    /\ CASE body.op = "return" ->
                /\ emitting' = [emitting EXCEPT !.k = @ + 1]
                /\ UNCHANGED <<listeners, emitResult>>
         [] body.op = "throw" ->
                /\ emitting' = [emitting EXCEPT !.active = FALSE]
                /\ emitResult' = "threw"
                /\ UNCHANGED listeners
         [] body.op = "on" ->
                /\ body.name \in DOMAIN listeners
                        => Len(listeners[body.name]) < MaxListeners
                /\ listeners' = OnListeners(body.name, body.listener)
                /\ emitting' = [OnEmitting(body.name, body.listener) EXCEPT !.k = @ + 1]
                /\ UNCHANGED emitResult
         [] body.op = "off" ->
                /\ listeners' = OffListeners(body.name, body.listener)
                /\ emitting' = [OffEmitting(body.name, body.listener) EXCEPT !.k = @ + 1]
                /\ UNCHANGED emitResult

\* forEach has visited every index: emit returns
EmitReturns ==
    /\ emitting.active
    /\ emitting.k > ForEachLength
    /\ emitting' = [emitting EXCEPT !.active = FALSE]
    /\ emitResult' = "returned"
    /\ UNCHANGED <<listeners, delivered>>

EmitterNext ==
    \/ \E name \in EventNames, l \in Listeners :
            On(name, l) /\ UNCHANGED <<servicesVars, builderVars, socketVars, messageVars>>
    \/ \E name \in EventNames, l \in Listeners :
            Off(name, l) /\ UNCHANGED <<servicesVars, builderVars, socketVars, messageVars>>
    \/ \E name \in EventNames, p \in Parameters :
            Emit(name, p) /\ UNCHANGED <<servicesVars, builderVars, socketVars, messageVars>>
    \/ \E body \in ListenerBodies :
            InvokeListener(body) /\ UNCHANGED <<servicesVars, builderVars, socketVars, messageVars>>
    \/ EmitReturns /\ UNCHANGED <<servicesVars, builderVars, socketVars, messageVars>>

SpecEmitter == Init /\ [][EmitterNext]_vars

\* ---------------------------------------------------------------- Socket
\* class Socket of src/unnamed/part_005, which extends EventEmitter: the
\* listeners of its "message" event are the variable listeners above.
\* The underlying sockets that start() creates are numbered 1..Len(handlers)
\* in creation order; handlers[s] is the set of events of socket s that
\* start() has bound a handler to.
SocketEvents ==
    {"connection.update", "messaging-history.set", "groups.upsert",
     "groups.update", "messages.upsert", "creds.update"}

\* The environments Bun.env can hold: USE_PAIRING and PHONE set or not.
Environments == [read : {TRUE}, usePairing : BOOLEAN, phone : BOOLEAN]

\* A WAMessage, by what Message.type looks at: packet.broadcast and the
\* property that packet.message has ("none": it has no message).
Packets == [broadcast : BOOLEAN, property : {"conversation", "reactionMessage", "none"}]

\* line 44 of src/src/core/message.ts, the properties of the model's packets
\* that are in validProperty
ValidProperty == {"conversation"}

\* Message.type (src/src/core/message.ts lines 42-47)
MessageTypeOf(packet) ==
    IF packet.broadcast THEN "Status"
    ELSE IF packet.property \in ValidProperty THEN "Message"
    ELSE "Unknown"

\* Dispatched without the test of line 115.
DispatchedAlways(packet) == TRUE

\* line 115: if (packet.type == MessageType.Unknown) continue
Dispatched(packet) == MessageTypeOf(packet) # "Unknown"

RECURSIVE Batches(_)
\* the sequences of packets of length up to n
Batches(n) ==
    IF n = 0 THEN {<<>>}
    ELSE Batches(n - 1)
         \cup {Append(b, p) : b \in {x \in Batches(n - 1) : Len(x) = n - 1}, p \in Packets}

\* Partial<ConnectionState>, by what connectionUpdate reads: connection
\* ("none": not in the update), the status code of lastDisconnect.error
\* ("none": no lastDisconnect or no error in it), and whether qr is there.
ConnectionStates ==
    [connection : {"open", "connecting", "close", "none"},
     statusCode : {"none", "loggedOut", "connectionLost"},
     qr : BOOLEAN]

\* Recovered when a missing lastDisconnect counts as logged out.
RecoveredNeedsError(u) == u.statusCode \notin {"none", "loggedOut"}

\* line 72: (lastDisconnect?.error as Boom)?.output?.statusCode !== DisconnectReason.loggedOut
Recovered(u) == u.statusCode # "loggedOut"

\* line 64: if (qr && Bun.env.USE_PAIRING)
PairingBranch(u) == u.qr /\ env.usePairing

\* What connectionUpdate does with the update u (lines 62-86).
ConnectionUpdateResult(u) ==
    IF socket = 0 THEN "noSocket"
    ELSE IF PairingBranch(u)
         THEN IF ~env.phone THEN "noPhone" ELSE "pairingCode"
         ELSE CASE u.connection = "open" -> "open"
                [] u.connection = "connecting" -> "connecting"
                [] u.connection = "close" ->
                        IF Recovered(u) THEN "start" ELSE "loggedOut"
                [] OTHER -> "nothing"

\* The environment is read when the process starts.
LoadEnv(e) ==
    /\ ~env.read
    /\ env' = e
    /\ UNCHANGED <<socket, handlers, upserts, trace, lastUpdate>>

\* lines 41-58: a new underlying socket becomes this.socket and gets the
\* six handlers
StartSocket ==
    /\ Len(handlers) < MaxSockets
    /\ handlers' = Append(handlers, SocketEvents)
    /\ socket' = Len(handlers) + 1

\* start(), called by AppService.start
Start ==
    /\ env.read
    /\ socket = 0
    /\ StartSocket
    /\ UNCHANGED <<env, upserts, trace, lastUpdate>>

\* The underlying socket s emits "connection.update" with u.
ConnectionUpdate(s, u) ==
    /\ "connection.update" \in handlers[s]
    /\ lastUpdate' = [update |-> u, result |-> ConnectionUpdateResult(u)]
    /\ IF ConnectionUpdateResult(u) = "start"
       THEN StartSocket
       ELSE UNCHANGED <<socket, handlers>>
    /\ UNCHANGED <<env, upserts, trace>>

\* The underlying socket s emits "messages.upsert" with a batch: lines
\* 109-111 up to the await; readMessages is called with the keys of all
\* the messages of the batch.
MessagesUpsert(s, batch) ==
    /\ "messages.upsert" \in handlers[s]
    /\ Len(upserts) < MaxUpserts
    /\ upserts' = Append(upserts, [from |-> s, messages |-> batch, phase |-> "reading"])
    /\ trace' = Append(trace, [op |-> "readMessages", batch |-> Len(upserts) + 1,
                               message |-> Len(batch)])
    /\ UNCHANGED <<socket, handlers, env, lastUpdate>>

\* the indices of the messages of a batch that the loop of lines 113-117
\* emits, in the order of the loop
RECURSIVE Emitted(_, _)
Emitted(batch, i) ==
    IF i > Len(batch) THEN <<>>
    ELSE IF Dispatched(batch[i]) THEN <<i>> \o Emitted(batch, i + 1)
    ELSE Emitted(batch, i + 1)

\* emit("message", this.socket, packet) for the first count indices of
\* indices, as trace entries of batch b
Emits(b, indices, count) ==
    [j \in 1..count |-> [op |-> "emit", batch |-> b, message |-> indices[j]]]

\* The readMessages call of batch b settles.  Rejected: messagesUpsert ends
\* there.  Resolved: the loop of lines 113-117 runs; a listener of "message"
\* that throws (one must be subscribed) ends the loop at that emit.
ReadMessagesSettles(b, resolved, thrownAt) ==
    /\ upserts[b].phase = "reading"
    /\ LET indices == Emitted(upserts[b].messages, 1) IN
       IF ~resolved
       THEN /\ thrownAt = 0
            /\ upserts' = [upserts EXCEPT ![b].phase = "readFailed"]
            /\ UNCHANGED trace
       ELSE IF thrownAt = 0
       THEN /\ upserts' = [upserts EXCEPT ![b].phase = "done"]
            /\ trace' = trace \o Emits(b, indices, Len(indices))
       ELSE /\ thrownAt <= Len(indices)
            /\ "message" \in DOMAIN listeners /\ Len(listeners["message"]) > 0
            /\ upserts' = [upserts EXCEPT ![b].phase = "listenerThrew"]
            /\ trace' = trace \o Emits(b, indices, thrownAt)
    /\ UNCHANGED <<socket, handlers, env, lastUpdate>>

\* The constructor of AppService subscribes its onMessage to the "message"
\* event of the Socket (src/src/services/app.ts line 17); l stands for
\* what that listener does.
Subscribe(l) ==
    /\ "message" \notin DOMAIN listeners
    /\ On("message", l)

\* Every variable but those of class Socket and the listeners it inherits.
notSocketVars ==
    <<servicesVars, builderVars, emitting, delivered, emitResult, messageVars>>

SocketNext ==
    \/ \E e \in Environments : LoadEnv(e) /\ UNCHANGED <<listeners, notSocketVars>>
    \/ Start /\ UNCHANGED <<listeners, notSocketVars>>
    \/ \E l \in Listeners :
            Subscribe(l) /\ UNCHANGED <<socketVars, servicesVars, builderVars, messageVars>>
    \/ \E s \in 1..Len(handlers), u \in ConnectionStates :
            ConnectionUpdate(s, u) /\ UNCHANGED <<listeners, notSocketVars>>
    \/ \E s \in 1..Len(handlers), batch \in Batches(MaxBatch) :
            MessagesUpsert(s, batch) /\ UNCHANGED <<listeners, notSocketVars>>
    \/ \E b \in 1..Len(upserts), resolved \in BOOLEAN, thrownAt \in 0..MaxBatch :
            ReadMessagesSettles(b, resolved, thrownAt) /\ UNCHANGED <<listeners, notSocketVars>>

SpecSocket == Init /\ [][SocketNext]_vars

\* --------------------------------------------------------------- Message
\* class Message of src/src/core/message.ts: defer, reply and send.  The
\* timers that setInterval and setTimeout create are numbered
\* 1..Len(timers) in creation order; pool and cancelDefer hold such a
\* number, or NoTimer while they are undefined.
Timers == 1..Len(timers)

Intervals == {t \in Timers : timers[t].kind = "interval"}

Timeouts == {t \in Timers : timers[t].kind = "timeout"}

\* clearInterval(t) / clearTimeout(t); NoTimer (undefined) clears nothing
ClearTimer(ts, t) == IF t = NoTimer THEN ts ELSE [ts EXCEPT ![t].active = FALSE]

\* defer() is called: line 101 sends "composing" and awaits the result
Defer ==
    /\ defers < MaxDefers
    /\ defers' = defers + 1
    /\ deferring' = deferring + 1
    /\ UNCHANGED <<timers, pool, cancelDefer, replied, staleComposing>>

\* The sendPresenceUpdate that a defer() awaits settles.  Resolved: lines
\* 102-103 assign a new interval to pool and a new timeout to cancelDefer.
\* Rejected: defer() ends there.
DeferResumes(resolved) ==
    /\ deferring > 0
    /\ deferring' = deferring - 1
    /\ IF resolved
       THEN /\ timers' = timers \o
                    << [kind |-> "interval", active |-> TRUE, afterReply |-> replied],
                       [kind |-> "timeout", active |-> TRUE, afterReply |-> replied] >>
            /\ pool' = Len(timers) + 1
            /\ cancelDefer' = Len(timers) + 2
       ELSE UNCHANGED <<timers, pool, cancelDefer>>
    /\ UNCHANGED <<defers, replied, staleComposing>>

\* An active interval fires (every 5000 ms): line 102 sends "composing".
IntervalFires(t) ==
    /\ t \in Intervals /\ timers[t].active
    /\ staleComposing' = (staleComposing \/ (replied /\ ~timers[t].afterReply))
    /\ UNCHANGED <<timers, pool, cancelDefer, deferring, defers, replied>>

\* An active timeout fires (30000 ms after its defer, so after the timeouts
\* created before it): line 103 clears the interval that pool holds now.
TimeoutFires(t) ==
    /\ t \in Timeouts /\ timers[t].active
    /\ \A e \in Timeouts : e < t => ~timers[e].active
    /\ timers' = [ClearTimer(timers, pool) EXCEPT ![t].active = FALSE]
    /\ UNCHANGED <<pool, cancelDefer, deferring, defers, replied, staleComposing>>

\* lines 112-113 and 128-129: if (this.pool) clearInterval(this.pool);
\* if (this.cancelDefer) clearTimeout(this.cancelDefer)
ClearDefer ==
    /\ timers' = ClearTimer(ClearTimer(timers, pool), cancelDefer)
    /\ replied' = TRUE
    /\ UNCHANGED <<pool, cancelDefer, deferring, defers, staleComposing>>

\* reply(content)
Reply == ClearDefer

\* send(jid, content)
Send == ClearDefer

\* Every variable but those of class Message.
notMessageVars == <<servicesVars, builderVars, emitterVars, socketVars>>

MessageNext ==
    \/ Defer /\ UNCHANGED notMessageVars
    \/ \E resolved \in BOOLEAN : DeferResumes(resolved) /\ UNCHANGED notMessageVars
    \/ \E t \in Timers : IntervalFires(t) /\ UNCHANGED notMessageVars
    \/ \E t \in Timers : TimeoutFires(t) /\ UNCHANGED notMessageVars
    \/ Reply /\ UNCHANGED notMessageVars
    \/ Send /\ UNCHANGED notMessageVars

SpecMessage == Init /\ [][MessageNext]_vars

\* ================================================================ claims
\* Helpers of the claims, written without the operators of the model above.
Has(r, n) == n \in DOMAIN services[r]

RECURSIVE ChainOf(_)
\* r, its parent, its grandparent, ... up to the root
ChainOf(r) == IF parent[r] = NoParent THEN <<r>> ELSE <<r>> \o ChainOf(parent[r])

\* the nearest registry of r's chain whose own table has n (NoParent: none)
FirstHolder(r, n) ==
    LET chain == ChainOf(r)
        idx == {i \in 1..Len(chain) : Has(chain[i], n)}
    IN  IF idx = {} THEN NoParent
        ELSE chain[CHOOSE i \in idx : \A j \in idx : i <= j]

IsScope(c) == c \in Registries /\ parent[c] # NoParent

Statuses(outcomes) == {o.status : o \in outcomes}

\* what the caller sees of a set of outcomes
Seen(outcomes) == {<<o.status, o.value>> : o \in outcomes}

\* ---------------------------------------------------------------- C1
\* C1 as the spec states it: a name that the parent registered after the
\* scope was created (the parent's table has it, the scope's snapshot has
\* not) is not resolvable from that scope: getRequiredService on the scope
\* fails with the not-found error.
C1_AsClaimed ==
    \A c \in Registries, n \in Names :
        (IsScope(c) /\ ~Has(c, n) /\ Has(parent[c], n))
            => \A o \in GetRequiredServiceOutcomes(c, n) : o.status = "notfound"

\* C1, amended: every name the parent's table has is resolvable from each of
\* its scopes, whether the scope was created before or after the
\* registration; a scope whose snapshot lacks the name (created before the
\* registration) resolves it by delegation, with exactly the outcomes of the
\* same call on the parent.
C1_ParentNamesResolve ==
    \A c \in Registries, n \in Names :
        (IsScope(c) /\ Has(parent[c], n))
            => /\ "notfound" \notin Statuses(GetRequiredServiceOutcomes(c, n))
               /\ ~Has(c, n) =>
                    GetRequiredServiceOutcomes(c, n)
                        = GetRequiredServiceOutcomes(parent[c], n)

\* Two scopes of one parent: the first was created before the parent
\* registered n (its snapshot lacks n), the second after (its snapshot has n).
C1_Witness ==
    \E c1, c2 \in Registries, n \in Names :
        /\ IsScope(c1) /\ IsScope(c2) /\ c1 < c2 /\ parent[c1] = parent[c2]
        /\ Has(parent[c1], n) /\ ~Has(c1, n) /\ Has(c2, n)

\* ---------------------------------------------------------------- C2
\* C2: getRequiredService(n) on r is decided by the nearest registry of r's
\* ancestor chain (r first) whose own table has n: its outcomes are those of
\* the lifetime rule applied in that registry, and it reports not-found,
\* and nothing else, exactly when no registry of the chain has n.
C2_OwnTableThenParents ==
    \A r \in Registries, n \in Names :
        LET h == FirstHolder(r, n)
            outcomes == GetRequiredServiceOutcomes(r, n)
        IN  /\ Has(r, n) => h = r
            /\ h = NoParent => Statuses(outcomes) = {"notfound"}
            /\ h # NoParent =>
                /\ outcomes = LifetimeRule(h, n)
                /\ "notfound" \notin Statuses(outcomes)

\* A scope of a scope resolves a name that only the root has, two
\* delegations away, and the root's factory has run.
C2_Witness ==
    \E r \in Registries, n \in Names :
        /\ IsScope(r) /\ IsScope(parent[r])
        /\ ~Has(r, n) /\ ~Has(parent[r], n) /\ Has(parent[parent[r]], n)
        /\ returned[services[parent[parent[r]]][n]]

\* the descriptor getRequiredService(n) on r ends in (r resolves n)
HandlerDesc(r, n) == desc[services[FirstHolder(r, n)][n]]

Resolves(r, n) == r \in Registries /\ FirstHolder(r, n) # NoParent

\* ---------------------------------------------------------------- C3
\* C3: in every state, for every registry and name, getService returns the
\* absent value (undefined) if and only if getRequiredService of the same
\* name on the same registry would raise the not-found error.
C3_AbsentIffNotFound ==
    \A r \in Registries, n \in Names :
        \A g \in GetServiceOutcomes(r, n) :
            g.value = Undefined
                <=> Statuses(GetRequiredServiceOutcomes(r, n)) = {"notfound"}

\* ---------------------------------------------------------------- C4
\* C4: once the factory of a Singleton registration has returned, no later
\* getRequiredService calls it again, and every later call returns the
\* instance it produced.
C4_FactoryOnce ==
    \A r \in Registries, n \in Names :
        (Resolves(r, n) /\ HandlerDesc(r, n).lifetime = "Singleton"
                        /\ HandlerDesc(r, n).factory # NoFactory
                        /\ returned[services[FirstHolder(r, n)][n]])
            => \A o \in GetRequiredServiceOutcomes(r, n) :
                    /\ ~o.invoked
                    /\ o.value = HandlerDesc(r, n).implementation

\* ---------------------------------------------------------------- C5
\* C5: whatever a factory that returns normally returns (an object, or an
\* empty value such as null), a Singleton-with-factory or Scoped service
\* that a registry has already materialized is not materialized again by a
\* further getRequiredService on that registry: the number of factory calls
\* does not depend on the value returned.
C5_CallsIndependentOfValue ==
    \A r \in Registries, n \in Names :
        Resolves(r, n) =>
            LET h == FirstHolder(r, n)
                d == services[h][n]
                materialized ==
                    \/ desc[d].lifetime = "Singleton" /\ returned[d]
                    \/ desc[d].lifetime = "Scoped" /\ n \in DOMAIN scopedInstances[h]
            IN  (desc[d].factory \in {"fresh", "null"} /\ materialized)
                    => \A o \in GetRequiredServiceOutcomes(r, n) : ~o.invoked

\* ---------------------------------------------------------------- C6
\* C6: every getRequiredService of a Transient name calls the factory, and
\* caches nothing (descriptors and scoped caches are left as they were); a
\* factory that constructs a new object per call yields an object distinct
\* from every object that existed before the call, in particular from the
\* result of every earlier resolution.
C6_TransientAlwaysCalls ==
    \A r \in Registries, n \in Names :
        (Resolves(r, n) /\ HandlerDesc(r, n).lifetime = "Transient")
            => \A o \in GetRequiredServiceOutcomes(r, n) :
                    /\ o.invoked
                    /\ o.desc = desc
                    /\ o.scopedInstances = scopedInstances
                    /\ (o.status = "ok" /\ HandlerDesc(r, n).factory \in {"fresh", "flaky"})
                            => o.value \notin 1..nextObj

\* The only registration is a Transient whose factory constructs objects;
\* it has been resolved twice (two objects exist, both made by it).
C6_Witness ==
    /\ Len(desc) = 1
    /\ desc[1].lifetime = "Transient" /\ desc[1].factory = "fresh"
    /\ returned[1] /\ nextObj = 2

Registers(c, n) ==
    /\ Len(desc') = Len(desc) + 1
    /\ n \in DOMAIN services'[c]
    /\ services'[c][n] = Len(desc')

SingletonInstance(d) == d.lifetime = "Singleton" /\ d.factory = NoFactory

\* C8: when a scope c registers a name n that its parent holds as a
\* Singleton instance: before the step a scope still referring to the
\* parent's registration resolves the parent's instance; after the step c
\* resolves the instance it registered, while the tables of the parent and
\* of c's sibling scopes are unchanged and the parent, and each sibling that
\* refers to the parent's registration, still resolve the parent's instance.
C8_Step(c, n) ==
    LET p  == parent[c]
        dp == services[p][n]
        parentInstance == {<<"ok", desc[dp].implementation>>}
    IN  (IsScope(c) /\ Has(p, n) /\ SingletonInstance(desc[dp]) /\ Registers(c, n)) =>
            /\ (Has(c, n) /\ services[c][n] = dp)
                    => Seen(GetRequiredServiceOutcomes(c, n)) = parentInstance
            /\ SingletonInstance(desc'[Len(desc')])
                    => Seen(GetRequiredServiceOutcomes(c, n))'
                            = {<<"ok", desc'[Len(desc')].implementation>>}
            /\ \A t \in Registries :
                    (t = p \/ (t # c /\ parent[t] = p)) =>
                        /\ services'[t] = services[t]
                        /\ (Has(t, n) /\ services[t][n] = dp)
                            => /\ Seen(GetRequiredServiceOutcomes(t, n)) = parentInstance
                               /\ Seen(GetRequiredServiceOutcomes(t, n))' = parentInstance

\* C8 (scope override), as a property of every step: C8_Step holds of each
\* registration made by a scope over a Singleton instance of its parent.
C8_ScopeOverride == [][\A c \in Registries, n \in Names : C8_Step(c, n)]_vars

\* The parent registered an object under a name, two scopes were created,
\* and one of them re-registered the name with another object.
C8_Witness ==
    \E c, t \in Registries, n \in Names :
        /\ IsScope(c) /\ t # c /\ parent[t] = parent[c]
        /\ Has(c, n) /\ Has(t, n) /\ Has(parent[c], n)
        /\ services[t][n] = services[parent[c]][n]
        /\ services[c][n] > services[parent[c]][n]
        /\ desc[services[c][n]].factory = NoFactory
        /\ desc[services[parent[c]][n]].factory = NoFactory
        /\ Truthy(desc[services[c][n]].implementation)
        /\ Truthy(desc[services[parent[c]][n]].implementation)
        /\ desc[services[c][n]].implementation
                # desc[services[parent[c]][n]].implementation

\* ---------------------------------------------------------------- C9
\* C9: a step that registers (allocates a descriptor) writes one name of one
\* registry's own table and nothing else: the other names of that table, the
\* tables of every other registry (ancestors and scopes already created),
\* all scoped caches, the parent links and every existing descriptor are as
\* before.
C9_Step ==
    Len(desc') > Len(desc) =>
        \E r \in Registries, n \in Names :
            /\ Registers(r, n)
            /\ DOMAIN services'[r] = DOMAIN services[r] \cup {n}
            /\ \A m \in DOMAIN services[r] \ {n} : services'[r][m] = services[r][m]
            /\ \A x \in Registries \ {r} : services'[x] = services[x]
            /\ scopedInstances' = scopedInstances
            /\ parent' = parent
            /\ \A d \in Descriptors : desc'[d] = desc[d] /\ returned'[d] = returned[d]

\* C9 (registration writes the called registry's own table only), as a
\* property of every step.
C9_RegisterOwnTableOnly == [][C9_Step]_vars

\* A parent overwrote a name after its scope was created: the scope's table
\* still refers to the older registration, which the scope has resolved.
C9_Witness ==
    \E c \in Registries, n \in Names :
        /\ IsScope(c) /\ Has(c, n) /\ Has(parent[c], n)
        /\ services[parent[c]][n] > services[c][n]
        /\ n \in DOMAIN scopedInstances[c]

\* --------------------------------------------------------------- C10
\* C10 as the spec states it: getRequiredService fails only with the
\* not-found error, and only when no registry of the chain has the name.
C10_AsClaimed ==
    \A r \in Registries, n \in Names :
        \A o \in GetRequiredServiceOutcomes(r, n) :
            o.status # "ok" =>
                /\ o.status = "notfound" /\ o.errorName = n
                /\ FirstHolder(r, n) = NoParent

\* C10, amended: getRequiredService fails with the not-found error, which
\* carries the requested name, exactly when no registry of the chain has the
\* name; its only other failure is an error thrown by the factory it called,
\* which it lets through; getService never fails.
C10_Failures ==
    \A r \in Registries, n \in Names :
        /\ \A o \in GetRequiredServiceOutcomes(r, n) :
            /\ o.status \in {"ok", "notfound", "threw"}
            /\ o.status = "notfound" <=> FirstHolder(r, n) = NoParent
            /\ o.status = "notfound" => o.errorName = n
            /\ o.status = "threw" =>
                    /\ o.invoked
                    /\ HandlerDesc(r, n).factory = "flaky"
        /\ \A g \in GetServiceOutcomes(r, n) : g.status = "ok"

\* A scope on which one name is not found (after a delegation to its
\* parent) and the resolution of another can fail in its factory.
C10_Witness ==
    \E r \in Registries, n, m \in Names :
        /\ IsScope(r)
        /\ "notfound" \in Statuses(GetRequiredServiceOutcomes(r, n))
        /\ "threw" \in Statuses(GetRequiredServiceOutcomes(r, m))
        /\ \E d \in Descriptors : returned[d]

\* --------------------------------------------------------------- C11
\* C11: an error thrown by a factory during a resolution reaches the caller
\* of that resolution, through getRequiredService and through getService
\* alike: whenever getRequiredService(n) on r can end in the error of the
\* factory it invoked, getService(n) on r can end in that error too (the
\* container does not suppress it).
C11_FactoryErrorPropagates ==
    \A r \in Registries, n \in Names :
        "threw" \in Statuses(GetRequiredServiceOutcomes(r, n)) =>
            /\ \A o \in GetRequiredServiceOutcomes(r, n) :
                    o.status = "threw" => o.invoked /\ o.errorName = ""
            /\ "threw" \in Statuses(GetServiceOutcomes(r, n))

\* --------------------------------------------------------------- C12
\* the registry handling n for r has not materialized n yet: the factory of
\* its Singleton or Scoped registration is still to be called
Pending(r, n) ==
    LET h == FirstHolder(r, n)
        d == HandlerDesc(r, n)
    IN  /\ d.factory # NoFactory
        /\ \/ d.lifetime = "Singleton" /\ ~Truthy(d.implementation)
           \/ d.lifetime = "Scoped" /\ n \notin DOMAIN scopedInstances[h]

\* C12: while a Singleton-with-factory or Scoped name is not materialized,
\* every getRequiredService of it invokes the factory; an invocation that
\* throws leaves every descriptor and every scoped cache as they were (so
\* the name is still not materialized and the next resolution invokes the
\* factory again, with these same outcomes), and an invocation that succeeds
\* returns the factory's result, a newly constructed object for a factory
\* that constructs one.
C12_FailureNotCached ==
    \A r \in Registries, n \in Names :
        (Resolves(r, n) /\ Pending(r, n)) =>
            \A o \in GetRequiredServiceOutcomes(r, n) :
                /\ o.invoked
                /\ o.status \in {"ok", "threw"}
                /\ o.status = "threw" =>
                        /\ o.desc = desc
                        /\ o.scopedInstances = scopedInstances
                /\ (o.status = "ok" /\ HandlerDesc(r, n).factory = "flaky")
                        => o.value \notin 1..nextObj /\ Truthy(o.value)

\* A Singleton and a Scoped name whose factories can throw: the Singleton
\* and one registry's Scoped instance have been materialized, while another
\* registry's resolution of the Scoped name can still throw.
C12_Witness ==
    \E r, s \in Registries, n, m \in Names :
        /\ r # s /\ n # m
        /\ Resolves(r, n) /\ HandlerDesc(r, n).lifetime = "Singleton"
        /\ HandlerDesc(r, n).factory = "flaky"
        /\ Truthy(HandlerDesc(r, n).implementation)
        /\ Resolves(r, m) /\ HandlerDesc(r, m).lifetime = "Scoped"
        /\ HandlerDesc(r, m).factory = "flaky"
        /\ m \in DOMAIN scopedInstances[FirstHolder(r, m)]
        /\ Resolves(s, m) /\ Pending(s, m)
        /\ HandlerDesc(s, m) = HandlerDesc(r, m)
        /\ "threw" \in Statuses(GetRequiredServiceOutcomes(s, m))

\* --------------------------------------------------------------- C13
\* C13: in every reachable state, for every registry and every name
\* (registered in the chain or not, with a factory that throws or not),
\* getService returns normally: it returns undefined when no registry of the
\* chain has the name or the factory threw, and otherwise what
\* getRequiredService returns in the same state.
C13_GetServiceNeverRaises ==
    \A r \in Registries, n \in Names :
        /\ \A g \in GetServiceOutcomes(r, n) :
            /\ g.status = "ok" /\ g.errorName = ""
            /\ \/ g.value = Undefined
               \/ <<"ok", g.value>> \in Seen(GetRequiredServiceOutcomes(r, n))
        /\ \A o \in GetRequiredServiceOutcomes(r, n) :
            <<"ok", IF o.status = "ok" THEN o.value ELSE Undefined>>
                \in Seen(GetServiceOutcomes(r, n))

\* A scope of a scope on which getRequiredService of one name is not found
\* and of another name can end in its factory's error, after that factory
\* has once returned an object to a Transient resolution.
C13_Witness ==
    \E r \in Registries, n, m \in Names :
        /\ IsScope(r) /\ IsScope(parent[r])
        /\ FirstHolder(r, n) = NoParent
        /\ Resolves(r, m) /\ HandlerDesc(r, m).factory = "flaky"
        /\ HandlerDesc(r, m).lifetime = "Transient"
        /\ returned[services[FirstHolder(r, m)][m]]
        /\ "threw" \in Statuses(GetRequiredServiceOutcomes(r, m))

\* --------------------------------------------------------------- C16
\* C16: a step that creates a registry (createScope called on some registry
\* r) appends one registry whose table equals r's table at the call, whose
\* parent is r and whose scoped cache is empty, and changes nothing else; in
\* particular a Scoped instance that r has already materialized is not in
\* the new scope, and every resolution in the new scope of a Scoped name
\* with a factory invokes that factory.
C16_Step ==
    Len(parent') > Len(parent) =>
        \E r \in Registries, s \in 1..MaxReg :
            /\ s = Len(parent) + 1 /\ s = Len(parent')
            /\ parent'[s] = r
            /\ services'[s] = services[r]
            /\ DOMAIN scopedInstances'[s] = {}
            /\ \A x \in Registries :
                /\ parent'[x] = parent[x]
                /\ services'[x] = services[x]
                /\ scopedInstances'[x] = scopedInstances[x]
            /\ desc' = desc
            /\ \A n \in DOMAIN services[r] :
                (desc[services[r][n]].lifetime = "Scoped"
                    /\ desc[services[r][n]].factory # NoFactory)
                    => \A o \in GetRequiredServiceOutcomes(s, n)' : o.invoked

\* C16 (createScope), as a property of every step.
C16_CreateScope == [][C16_Step]_vars

\* A registry materialized a Scoped name and a scope of it, whose table
\* refers to the same registration, later materialized its own, distinct
\* instance.
C16_Witness ==
    \E s \in Registries, n \in Names :
        /\ IsScope(s) /\ Has(s, n) /\ Has(parent[s], n)
        /\ services[s][n] = services[parent[s]][n]
        /\ desc[services[s][n]].lifetime = "Scoped"
        /\ n \in DOMAIN scopedInstances[parent[s]]
        /\ n \in DOMAIN scopedInstances[s]
        /\ Truthy(scopedInstances[parent[s]][n])
        /\ scopedInstances[parent[s]][n] < scopedInstances[s][n]

\* --------------------------------------------------------------- C17
\* a descriptor of name n that scope s has not registered itself: s's chain
\* reaches it in an ancestor's table, or s's own entry is the entry its
\* parent's table still has (copied by createScope)
InheritedFrom(s, n) ==
    IF ~Has(s, n) THEN FirstHolder(s, n)
    ELSE IF IsScope(s) /\ Has(parent[s], n)
                       /\ services[s][n] = services[parent[s]][n]
         THEN FirstHolder(parent[s], n)
         ELSE NoParent

\* C17 as the spec states it: when a scope s resolves a Scoped name that an
\* ancestor registered and s did not re-register, the instance is stored in
\* that ancestor's scoped cache and s's own scoped cache is left as it was.
C17_AsClaimed ==
    \A s \in Registries, n \in Names :
        LET a == InheritedFrom(s, n) IN
        (IsScope(s) /\ a # NoParent /\ a # s
                    /\ desc[services[a][n]].lifetime = "Scoped") =>
            \A o \in GetRequiredServiceOutcomes(s, n) :
                o.status = "ok" =>
                    /\ o.scopedInstances[s] = scopedInstances[s]
                    /\ n \in DOMAIN o.scopedInstances[a]
                    /\ o.scopedInstances[a][n] = o.value

\* C17, amended: the lifetime handling of a Scoped name happens in the
\* nearest registry of the chain whose own table has the name. When the
\* scope's own table lacks it (an ancestor registered it after the scope was
\* created) the instance is stored in that ancestor's scoped cache and the
\* scope's cache is left as it was; when the scope's table has it (copied by
\* createScope or registered by the scope) the instance is stored in the
\* scope's own cache and every other registry's cache is left as it was.
C17_ScopedHandledByHolder ==
    \A s \in Registries, n \in Names :
        (Resolves(s, n) /\ HandlerDesc(s, n).lifetime = "Scoped") =>
            LET h == FirstHolder(s, n) IN
            \A o \in GetRequiredServiceOutcomes(s, n) :
                /\ \A x \in Registries \ {h} :
                        o.scopedInstances[x] = scopedInstances[x]
                /\ o.status = "ok" =>
                        /\ n \in DOMAIN o.scopedInstances[h]
                        /\ o.scopedInstances[h][n] = o.value
                /\ ~Has(s, n) => h # s /\ o.scopedInstances[s] = scopedInstances[s]

\* A scope whose table lacks a Scoped name that its parent registered later
\* and materialized (the delegated case), next to a sibling scope created
\* after that registration, holding its own instance in its own cache.
C17_Witness ==
    \E s, t \in Registries, n \in Names :
        /\ IsScope(s) /\ IsScope(t) /\ s # t /\ parent[s] = parent[t]
        /\ ~Has(s, n) /\ Has(parent[s], n) /\ Has(t, n)
        /\ services[t][n] = services[parent[s]][n]
        /\ desc[services[t][n]].lifetime = "Scoped"
        /\ n \in DOMAIN scopedInstances[parent[s]]
        /\ n \in DOMAIN scopedInstances[t]
        /\ n \notin DOMAIN scopedInstances[s]

\* --------------------------------------------------------------- C18
\* the objects (not the empty values) that registry x holds in its cache
CachedObjects(x) ==
    {scopedInstances[x][m] : m \in {k \in DOMAIN scopedInstances[x] :
                                        Truthy(scopedInstances[x][k])}}

C19_AsClaimedStep(h, s, n) ==
    (IsScope(s) /\ parent[s] = h /\ Has(h, n) /\ Has(s, n)
                /\ services[s][n] = services[h][n]
                /\ Registers(h, n)
                /\ SingletonInstance(desc'[Len(desc')]))
        => Seen(GetRequiredServiceOutcomes(s, n))'
                = Seen(GetRequiredServiceOutcomes(h, n))'

C19_AsClaimed ==
    [][\A h, s \in Registries, n \in Names : C19_AsClaimedStep(h, s, n)]_vars

\* the registration that getRequiredService(n) on r ends in
Registration(r, n) == services[FirstHolder(r, n)][n]

\* C19, amended: registries whose resolution of n ends in the same Singleton
\* registration (an instance, or a factory that returns an object) share it:
\* resolving n has the same outcomes on each of them whoever resolves first;
\* before the factory has returned each resolution invokes it and stores the
\* object it returns in the registration, and once it has returned (or for a
\* registered instance) every resolution on each of them returns that one
\* object and invokes nothing.
C19_SingletonShared ==
    \A r, x \in Registries, n \in Names :
        (Resolves(r, n) /\ Resolves(x, n)
            /\ Registration(r, n) = Registration(x, n)
            /\ HandlerDesc(r, n).lifetime = "Singleton"
            /\ HandlerDesc(r, n).factory \in {NoFactory, "fresh"}) =>
            LET d == Registration(r, n) IN
            /\ GetRequiredServiceOutcomes(r, n) = GetRequiredServiceOutcomes(x, n)
            /\ \A o \in GetRequiredServiceOutcomes(x, n) :
                IF desc[d].factory = NoFactory \/ returned[d]
                THEN /\ ~o.invoked /\ o.status = "ok"
                     /\ o.value = desc[d].implementation
                     /\ o.desc = desc
                ELSE /\ o.invoked /\ o.status = "ok"
                     /\ Truthy(o.value)
                     /\ o.desc[d].implementation = o.value
                     /\ o.returned[d]

\* A registry registered a Singleton factory between the creation of two of
\* its scopes: one scope delegates to it, the other has the registration in
\* its own table, and the factory has returned its object.
C19_Witness ==
    \E s, t \in Registries, n \in Names :
        /\ IsScope(s) /\ IsScope(t) /\ parent[s] = parent[t]
        /\ ~Has(s, n) /\ Has(t, n) /\ Has(parent[s], n)
        /\ services[t][n] = services[parent[s]][n]
        /\ desc[services[t][n]].lifetime = "Singleton"
        /\ desc[services[t][n]].factory = "fresh"
        /\ returned[services[t][n]]
        /\ Truthy(desc[services[t][n]].implementation)

\* --------------------------------------------------------------- C20
\* a step in which the materialization state of a name of x's own table
\* changes: its factory call was pending before and is not after, or the
\* reverse
MaterializationChanges(x) ==
    \E n \in Names :
        /\ Has(x, n) /\ Has(x, n)'
        /\ Pending(x, n) # Pending(x, n)'

\* C20 as the spec states it: a resolution changes the materialization state
\* of the one registry that performs the lifetime handling; the state that
\* every other registry observes for the names of its table (its factory
\* call still pending, or its instance cached) is unchanged.
C20_AsClaimed ==
    [][\A x, y \in Registries :
            (MaterializationChanges(x) /\ MaterializationChanges(y)) => x = y]_vars

\* the writes of a step to the caches: the implementation of descriptors and
\* the scoped caches of the registries that exist before the step
C20_Step ==
    /\ \A d \in Descriptors :
        desc'[d] # desc[d] =>
            /\ desc[d].lifetime = "Singleton"
            /\ desc[d].factory # NoFactory
            /\ ~Truthy(desc[d].implementation)
            /\ desc'[d].lifetime = desc[d].lifetime
            /\ desc'[d].factory = desc[d].factory
            /\ \A e \in Descriptors \ {d} : desc'[e] = desc[e]
            /\ Len(desc') = Len(desc)
            /\ scopedInstances' = scopedInstances
            /\ services' = services /\ parent' = parent
    /\ \A x \in Registries :
        scopedInstances'[x] # scopedInstances[x] =>
            /\ \E n \in Names :
                /\ Has(x, n) /\ desc[services[x][n]].lifetime = "Scoped"
                /\ n \notin DOMAIN scopedInstances[x]
                /\ DOMAIN scopedInstances'[x] = DOMAIN scopedInstances[x] \cup {n}
                /\ \A m \in DOMAIN scopedInstances[x] :
                        scopedInstances'[x][m] = scopedInstances[x][m]
            /\ \A y \in Registries \ {x} : scopedInstances'[y] = scopedInstances[y]
            /\ desc' = desc
            /\ services' = services /\ parent' = parent
    /\ (Len(desc') > Len(desc) \/ Len(parent') > Len(parent)) =>
            /\ \A d \in Descriptors : desc'[d] = desc[d]
            /\ \A x \in Registries : scopedInstances'[x] = scopedInstances[x]

\* C20, amended: a step writes at most one cache entry. The first resolution
\* of a Scoped name writes the entry of that name in the scoped cache of the
\* registry whose table has the name, and nothing else. The materialization
\* of a Singleton-with-factory writes the implementation of its descriptor,
\* which every registry whose table refers to that registration observes,
\* and nothing else. Registrations, createScope, resolutions of materialized
\* names, of instances and of transients write no cache.
C20_CacheWrites == [][C20_Step]_vars

\* A registry and its scope refer to one Singleton-with-factory
\* registration, which has been materialized, and to one Scoped
\* registration, which only the scope has materialized.
C20_Witness ==
    \E s \in Registries, n, m \in Names :
        /\ IsScope(s) /\ n # m
        /\ Has(s, n) /\ Has(parent[s], n)
        /\ services[s][n] = services[parent[s]][n]
        /\ desc[services[s][n]].lifetime = "Singleton"
        /\ desc[services[s][n]].factory = "fresh"
        /\ Truthy(desc[services[s][n]].implementation)
        /\ Has(s, m) /\ Has(parent[s], m)
        /\ services[s][m] = services[parent[s]][m]
        /\ desc[services[s][m]].lifetime = "Scoped"
        /\ m \in DOMAIN scopedInstances[s]
        /\ m \notin DOMAIN scopedInstances[parent[s]]

\* --------------------------------------------------------------- C14
Began(i) == \E p \in 1..Len(log) : log[p] = <<"begin", i>>

Ended(i) == \E p \in 1..Len(log) : log[p] = <<"end", i>>

BeginPos(i) == CHOOSE p \in 1..Len(log) : log[p] = <<"begin", i>>

EndPos(i) == CHOOSE p \in 1..Len(log) : log[p] = <<"end", i>>

\* the steps that have begun and not ended
StepsInProgress == {i \in 1..Len(steps) : Began(i) /\ ~Ended(i)}

\* C14 as the spec states it: of any two steps supplied to the builder, the
\* earlier has completed before the later begins, and no two steps are in
\* progress at the same time.
C14_AsClaimed ==
    /\ \A i, j \in 1..Len(steps) :
        i < j => Ended(i) /\ EndPos(i) < BeginPos(j)
    /\ \A i, j \in StepsInProgress : i = j

\* C14, amended: the steps begin in the order they were supplied, each at
\* its call; a synchronous step completes inside its call; an asynchronous
\* step whose promise the caller awaits completes before any later step
\* begins and before any later build(); so when the caller awaits every
\* asynchronous step, at most one step is in progress and the steps complete
\* in the order supplied.  The builder itself does not wait: a step supplied
\* after a configureService call that was not awaited begins while the
\* earlier step is still in progress.
C14_AwaitedInOrder ==
    /\ \A i \in 1..Len(steps) :
        /\ Began(i)
        /\ Ended(i) <=> steps[i].phase = "done"
        /\ \A j \in 1..Len(steps) : i < j => BeginPos(i) < BeginPos(j)
        /\ steps[i].kind = "sync" => Ended(i) /\ EndPos(i) = BeginPos(i) + 1
        /\ (steps[i].kind = "async" /\ steps[i].awaited) =>
            /\ \A j \in 1..Len(steps) :
                i < j => Ended(i) /\ EndPos(i) < BeginPos(j)
            /\ \A p \in 1..Len(log) :
                (log[p][1] = "build" /\ BeginPos(i) < p)
                    => Ended(i) /\ EndPos(i) < p
    /\ (\A i \in 1..Len(steps) : steps[i].kind = "async" => steps[i].awaited) =>
        /\ \A i, j \in StepsInProgress : i = j
        /\ \A i, j \in 1..Len(steps) :
            (i < j /\ Ended(j)) => Ended(i) /\ EndPos(i) < EndPos(j)

\* An asynchronous step that the caller awaited, then a synchronous step:
\* both have completed, the first before the second began.
C14_Witness ==
    /\ Len(steps) = 2
    /\ steps[1].kind = "async" /\ steps[1].awaited /\ steps[1].phase = "done"
    /\ steps[2].kind = "sync" /\ steps[2].phase = "done"
    /\ Has(Root, steps[1].name) /\ Has(Root, steps[2].name)
    /\ steps[1].name # steps[2].name

\* --------------------------------------------------------------- C15
\* C15: every call of build() returns one and the same registry reference,
\* the registry that every configuration step received; every step that has
\* completed, before or after the call, has its registration resolvable
\* through the returned reference (the registry is not locked by build()).
C15_BuildSameRegistry ==
    /\ \A b, c \in built : b = c
    /\ \A b \in built, i \in 1..Len(steps) :
        /\ steps[i].registry = b
        /\ steps[i].phase = "done" =>
            /\ Has(b, steps[i].name)
            /\ Statuses(GetRequiredServiceOutcomes(b, steps[i].name)) = {"ok"}
            /\ Statuses(GetServiceOutcomes(b, steps[i].name)) = {"ok"}

\* build() was called twice; a step completed before the first call and
\* another step began and completed between the two calls.
C15_Witness ==
    \E p, q \in 1..Len(log), i, j \in 1..Len(steps) :
        /\ log[p][1] = "build" /\ log[q][1] = "build" /\ p < q
        /\ Ended(i) /\ EndPos(i) < p
        /\ Ended(j) /\ p < BeginPos(j) /\ EndPos(j) < q
        /\ built = {Root}
        /\ Has(Root, steps[i].name) /\ Has(Root, steps[j].name)

\* --------------------------------------------------------------- C22
\* a step in which registry r registers name n: right after it, every
\* outcome of getRequiredService(n) on r comes from the registration just
\* made: its instance when an instance was registered, a call of its
\* factory (which has never been called) when a factory was registered
C22_Step(r, n) ==
    Registers(r, n) =>
        \A o \in GetRequiredServiceOutcomes(r, n)' :
            IF desc'[Len(desc')].factory = NoFactory
            THEN /\ o.status = "ok" /\ ~o.invoked
                 /\ o.value = desc'[Len(desc')].implementation
            ELSE o.invoked

\* C22: after a name is registered again in a registry, by any of the four
\* register operations, the next getRequiredService of the name on that
\* registry reflects the latest registration, also when the name was Scoped
\* before and the registry has an instance of it in its scoped cache.
C22_LatestRegistration ==
    [][\A r \in Registries, n \in Names : C22_Step(r, n)]_vars

\* --------------------------------------------------------------- C21
\* the invocations an emit owes: one per subscription that its name had
\* when it was called, in subscription order, with the parameters given
Expected ==
    [i \in 1..Len(emitting.atStart) |-> <<emitting.atStart[i], emitting.parameters>>]

\* C21: the listeners an emit has invoked are, in order and with the
\* parameters of the call, the first subscriptions that its name had when
\* emit was called, and nothing else (no subscription of another name);
\* when emit returns it has invoked all of them, and an emit that ends in a
\* listener's error ends right after invoking the listener that threw.
C21_EmitInOrder ==
    /\ emitting.active <=> emitResult = "running"
    /\ (emitting.active /\ emitting.k = 1) =>
            /\ emitting.name \in DOMAIN listeners
            /\ emitting.atStart = listeners[emitting.name]
    /\ emitResult # "none" =>
            /\ Len(delivered) <= Len(Expected)
            /\ delivered = SubSeq(Expected, 1, Len(delivered))
            /\ emitResult = "running" => Len(delivered) = emitting.k - 1
            /\ emitResult = "returned" => Len(delivered) = Len(Expected)
            /\ emitResult = "threw" => Len(delivered) >= 1

\* An emit of "message" has returned after invoking two different
\* listeners, while the other name has subscriptions too.
C21_Witness ==
    /\ emitResult = "returned" /\ emitting.name = "message"
    /\ Len(delivered) = 2 /\ delivered[1][1] # delivered[2][1]
    /\ delivered[1][2] = "q"
    /\ "other" \in DOMAIN listeners /\ Len(listeners["other"]) > 0

\* --------------------------------------------------------------- C23
Range(s) == {s[i] : i \in 1..Len(s)}

\* C23, as a property of every step: while an emit is running, each step
\* invokes the next of the subscriptions that the name had when emit was
\* called, whatever on and off calls the listeners invoked so far have made
\* (a listener removed by an earlier listener of the same emit is still
\* invoked, a listener added during the emit is not); the emit returns only
\* after the last of them, and an emit that is called afterwards starts from
\* the subscriptions of its name at that moment, the added listener
\* included.
C23_Step ==
    /\ (emitting.active /\ delivered' # delivered) =>
            /\ emitting.k <= Len(emitting.atStart)
            /\ delivered' = Append(delivered,
                                   <<emitting.atStart[emitting.k], emitting.parameters>>)
            /\ emitting'.atStart = emitting.atStart
    /\ (emitting.active /\ emitResult' = "returned") =>
            /\ Len(delivered) = Len(emitting.atStart)
            /\ delivered' = delivered
    /\ (~emitting.active /\ emitting'.active) =>
            /\ emitting'.atStart = listeners[emitting'.name]
            /\ delivered' = <<>>

C23_EmitSnapshot == [][C23_Step]_vars

\* An emit is running; its first listener has called off for the listener
\* that is next in line, which is no longer subscribed and is still to be
\* invoked.
C23_Witness ==
    /\ emitting.active /\ emitting.k = 2 /\ Len(delivered) = 1
    /\ Len(emitting.atStart) >= 2
    /\ emitting.atStart[2] # emitting.atStart[1]
    /\ emitting.atStart[2] \notin Range(listeners[emitting.name])
    /\ emitting.atStart[1] \in Range(listeners[emitting.name])

\* --------------------------------------------------------------- C24
RECURSIVE Without(_, _)
\* the sequence s with every element equal to l left out
Without(s, l) ==
    IF s = <<>> THEN <<>>
    ELSE IF Head(s) = l THEN Without(Tail(s), l)
         ELSE <<Head(s)>> \o Without(Tail(s), l)

\* what off(name, l) leaves, in every state and for every name and listener:
\* the same names; under the name, the subscriptions other than l's in
\* their order and none of l; the arrays of the other names as they were;
\* and the very same listeners when the name has no array or l is not
\* subscribed to it
C24_OffResult ==
    \A name \in EventNames, l \in Listeners :
        LET after == OffListeners(name, l) IN
        /\ DOMAIN after = DOMAIN listeners
        /\ \A m \in DOMAIN listeners \ {name} : after[m] = listeners[m]
        /\ name \in DOMAIN listeners =>
                /\ after[name] = Without(listeners[name], l)
                /\ l \notin Range(after[name])
        /\ (name \notin DOMAIN listeners \/ l \notin Range(listeners[name]))
                => after = listeners

\* a step that takes subscriptions away from a name takes away all the
\* subscriptions of one listener and changes nothing else of listeners
C24_Step ==
    \A name \in DOMAIN listeners :
        (name \in DOMAIN listeners' /\ Len(listeners'[name]) < Len(listeners[name])) =>
            /\ \E l \in Range(listeners[name]) :
                    listeners'[name] = Without(listeners[name], l)
            /\ DOMAIN listeners' = DOMAIN listeners
            /\ \A m \in DOMAIN listeners \ {name} : listeners'[m] = listeners[m]

\* C24: off(name, listener) removes every subscription of that listener for
\* that name, keeps the other listeners of the name in their order, leaves
\* the other names untouched, and changes nothing when the name or the
\* listener was never subscribed.
C24_Off == []C24_OffResult /\ [][C24_Step]_vars

\* The first listener of a running emit has called off for itself: it was
\* subscribed twice to the name, around another listener, which is all that
\* is left, and its subscription to the other name is still there.
C24_Witness ==
    \E name, m \in EventNames :
        /\ name # m
        /\ emitting.active /\ emitting.name = name /\ emitting.k = 2
        /\ Len(emitting.atStart) = 3
        /\ emitting.atStart[1] = emitting.atStart[3]
        /\ emitting.atStart[1] # emitting.atStart[2]
        /\ listeners[name] = <<emitting.atStart[2]>>
        /\ m \in DOMAIN listeners
        /\ emitting.atStart[1] \in Range(listeners[m])

\* ---- helpers of the claims about the Socket
\* the entries of trace that belong to batch b, in order
BatchTrace(b) == SelectSeq(trace, LAMBDA e : e.batch = b)

\* the indices of the messages of a batch whose type is Status or Message,
\* in batch order
NotUnknown(batch) ==
    SelectSeq([i \in 1..Len(batch) |-> i],
              LAMBDA i : MessageTypeOf(batch[i]) \in {"Status", "Message"})

\* the trace of batch b when the whole batch is read and then the first
\* count messages of type Status or Message are emitted
ReadThenEmits(b, count) ==
    << [op |-> "readMessages", batch |-> b, message |-> Len(upserts[b].messages)] >>
    \o [j \in 1..count |->
            [op |-> "emit", batch |-> b, message |-> NotUnknown(upserts[b].messages)[j]]]

\* C25 (as stated): for every handled batch, all its messages are marked as
\* read and then "message" is emitted exactly once per message of type
\* Status or Message, in batch order.
C25_AsClaimed ==
    \A b \in 1..Len(upserts) :
        upserts[b].phase # "reading" =>
            BatchTrace(b) = ReadThenEmits(b, Len(NotUnknown(upserts[b].messages)))

\* C25 (amended): every batch is first marked as read, all its messages in
\* one call, and nothing is emitted before that call has resolved.  If it
\* rejects, nothing of the batch is emitted.  If it resolves, "message" is
\* emitted once per message of type Status or Message, in batch order, up to
\* the end of the batch or up to the first emit in which a listener throws.
\* A message of type Unknown is never emitted.
C25_ReadThenEmit ==
    \A b \in 1..Len(upserts) :
        LET batch == upserts[b].messages
            phase == upserts[b].phase
        IN  /\ phase \in {"reading", "readFailed"} => BatchTrace(b) = ReadThenEmits(b, 0)
            /\ phase = "done" => BatchTrace(b) = ReadThenEmits(b, Len(NotUnknown(batch)))
            /\ phase = "listenerThrew" =>
                    \E count \in 1..Len(NotUnknown(batch)) :
                        BatchTrace(b) = ReadThenEmits(b, count)
            /\ \A j \in 1..Len(BatchTrace(b)) :
                    BatchTrace(b)[j].op = "emit" =>
                        MessageTypeOf(batch[BatchTrace(b)[j].message]) # "Unknown"

\* A batch of a message of type Unknown followed by one of type Status was
\* handled to its end: one emit, for the second message.
C25_Witness ==
    \E b \in 1..Len(upserts) :
        /\ upserts[b].phase = "done"
        /\ Len(upserts[b].messages) = 2
        /\ MessageTypeOf(upserts[b].messages[1]) = "Unknown"
        /\ MessageTypeOf(upserts[b].messages[2]) = "Status"
        /\ Len(trace) = 2
        /\ trace[2] = [op |-> "emit", batch |-> b, message |-> 2]

\* C26: a step in which a connection update was handled restarts the Socket
\* (start() runs again: a new underlying socket with the six handlers becomes
\* this.socket) if and only if the update is outside the pairing branch,
\* reports "close" and its status code is not loggedOut, no disconnect error
\* included; with loggedOut an error is raised and nothing restarts; "open"
\* and "connecting" never restart.
C26_Step ==
    LET u == lastUpdate'.update
        restarted == socket # 0 /\ Len(handlers') = Len(handlers) + 1
        handled == lastUpdate' # lastUpdate
    IN  /\ restarted =>
            /\ ~PairingBranch(u) /\ u.connection = "close" /\ u.statusCode # "loggedOut"
            /\ handlers'[Len(handlers')] = SocketEvents /\ Cardinality(SocketEvents) = 6
            /\ socket' = Len(handlers')
            /\ \A s \in 1..Len(handlers) : handlers'[s] = handlers[s]
        /\ handled /\ ~PairingBranch(u) /\ u.connection = "close" =>
            IF u.statusCode # "loggedOut"
            THEN restarted
            ELSE lastUpdate'.result = "loggedOut" /\ UNCHANGED <<socket, handlers>>
        /\ handled /\ u.connection \in {"open", "connecting"} =>
            UNCHANGED <<socket, handlers>>

C26_Restart == [][C26_Step]_vars

\* A "close" update without a disconnect error made the Socket start again.
C26_Witness ==
    /\ Len(handlers) = 2 /\ socket = 2
    /\ lastUpdate.result = "start"
    /\ lastUpdate.update.connection = "close"
    /\ lastUpdate.update.statusCode = "none"

\* C27 (as stated): once reply() or send() has been called, no interval
\* that a defer() completed before the call had started sends "composing"
\* again, however many defer() calls were completed before it.
C27_TypingRemoved == ~staleComposing

\* C28 (as stated): reply() and send() were never called, no defer() is
\* waiting, and the timeout of the last defer() (so of every defer()) has
\* fired: no interval that a defer() started is still active.
C28_IntervalsStopped ==
    (/\ ~replied
     /\ deferring = 0
     /\ Timeouts # {}
     /\ \A t \in Timeouts : ~timers[t].active)
        => \A t \in Intervals : ~timers[t].active
====
